---- MODULE Spec2Model ----
(***************************************************************************)
(* Model of the RPN calculator of src/lib/rpn-calculator.ts.               *)
(*                                                                         *)
(* Strings are sequences of characters, so that trimming, splitting and     *)
(* parseFloat are computed character by character.  An ASCII character is  *)
(* the one-character string of it ("3", " ", "\n"); any other UTF-16 code   *)
(* unit, and the vertical tab, is the string "U+" and its four hexadecimal *)
(* digits ("U+3000", "U+000B"), whatever the encoding of this file.        *)
(*                                                                         *)
(* A JavaScript number is a record [k, n, d, xn, xd]:                      *)
(*   k = "num"        the double nearest to the rational n/d (d > 0, lowest*)
(*                    terms); it is that rational exactly when d is a      *)
(*                    power of two (magnitudes are at most MaxMagnitude);  *)
(*   k = "-0", "NaN", "Infinity", "-Infinity"   the IEEE 754 specials;     *)
(*   k = "radians"    the finite non-zero double (n/d) * (Math.PI / 180);  *)
(*   k = "sqrt", "sin", "cos", "tan"   the finite non-zero double that the *)
(*                    Math function returns for the argument n/d (degrees  *)
(*                    for the trigonometric ones), not exactly known here; *)
(*   k = "pow"        likewise Math.pow(n/d, xn/xd);                       *)
(*   k = "undefined"  the value undefined, what pop returns on an empty     *)
(*                    array; arithmetic converts it to NaN;                *)
(*   k = "unmodelled" a double outside the part of the arithmetic that the *)
(*                    model computes (an operand that is not exactly known,*)
(*                    or a magnitude beyond MaxMagnitude).  It may be any  *)
(*                    double: whether it is NaN, finite, zero or negative  *)
(*                    is not decided, and what the code makes depend on    *)
(*                    that is "unmodelled" too.  Init admits only          *)
(*                    expressions whose scan never meets such a one.       *)
(***************************************************************************)
EXTENDS Integers, Sequences, FiniteSets, TLC

\* Longest token list enumerated over the whole vocabulary.
MaxTokens == 3

\* Largest numerator and denominator of an exactly represented number.
MaxMagnitude == 4096

\* Longest token list of the expressions to which white space is added, and
\* the longest run of white space added.
MaxPaddedTokens == 2

MaxRun == 2

(***************************************************************************)
(* JavaScript numbers                                                      *)
(***************************************************************************)
Val(k, n, d, xn, xd) == [k |-> k, n |-> n, d |-> d, xn |-> xn, xd |-> xd]

NaN == Val("NaN", 0, 1, 0, 1)

PosInfinity == Val("Infinity", 0, 1, 0, 1)

NegInfinity == Val("-Infinity", 0, 1, 0, 1)

PosZero == Val("num", 0, 1, 0, 1)

NegZero == Val("-0", 0, 1, 0, 1)

One == Val("num", 1, 1, 0, 1)

Unmodelled == Val("unmodelled", 0, 1, 0, 1)

Abs(x) == IF x < 0 THEN -x ELSE x

RECURSIVE GCD(_, _)
GCD(a, b) == IF b = 0 THEN a ELSE GCD(b, a % b)

RECURSIVE IsPow2(_)
IsPow2(d) == d = 1 \/ (d > 1 /\ d % 2 = 0 /\ IsPow2(d \div 2))

\* The number n/d (d > 0, in lowest terms), when the model represents it.
InRange(n, d) ==
    IF Abs(n) > MaxMagnitude \/ d > MaxMagnitude THEN Unmodelled ELSE Val("num", n, d, 0, 1)

Reduced(n, d, g) == InRange(n \div g, d \div g)

\* The number n/d (d # 0).
Num(n, d) ==
    IF d < 0 THEN Reduced(-n, -d, GCD(Abs(n), Abs(d))) ELSE Reduced(n, d, GCD(Abs(n), Abs(d)))

\* A finite number whose double is exactly n/d.
Exact(v) == v.k = "num" /\ IsPow2(v.d)

Special(v) == v.k \in {"-0", "NaN", "undefined", "Infinity", "-Infinity"}

\* An operand on which the model computes the IEEE 754 result.
Standard(v) == Exact(v) \/ Special(v)

\* What a test gives on a double that the model does not compute: neither
\* TRUE nor FALSE.
NotDecided == "unmodelled"

\* The double is one whose kind of value (NaN, infinite, zero or other) the
\* model knows, and one whose sign it knows: the sign of a sin, cos or tan
\* depends on the rounding near the multiples of 90 degrees.
Decided(v) == v.k # "unmodelled"

SignDecided(v) == v.k \notin {"unmodelled", "sin", "cos", "tan"}

\* The global isNaN and isFinite: both convert the argument to a number, and
\* undefined converts to NaN, as it does in every arithmetic operation.
isNaN(v) == IF Decided(v) THEN v.k \in {"NaN", "undefined"} ELSE NotDecided

isFinite(v) ==
    IF Decided(v) THEN v.k \notin {"NaN", "undefined", "Infinity", "-Infinity"}
    ELSE NotDecided

IsInf(v) == v.k \in {"Infinity", "-Infinity"}

\* v === 0 (true of both zeros)
IsZero(v) == IF Decided(v) THEN v.k = "-0" \/ (v.k = "num" /\ v.n = 0) ELSE NotDecided

\* The sign bit: -1 or 1.
Sgn(v) == IF v.k \in {"-0", "-Infinity"} \/ (v.k = "num" /\ v.n < 0) THEN -1 ELSE 1

Zero(s) == IF s < 0 THEN NegZero ELSE PosZero

Inf(s) == IF s < 0 THEN NegInfinity ELSE PosInfinity

\* v < 0 (false of NaN and of both zeros).  Math.pow of a negative base is
\* negative for an odd integer exponent.
Lt0(v) ==
    IF SignDecided(v)
    THEN \/ v.k = "-Infinity"
         \/ (v.k \in {"num", "radians"} /\ v.n < 0)
         \/ (v.k = "pow" /\ v.n < 0 /\ v.xd = 1 /\ v.xn % 2 # 0)
    ELSE NotDecided

\* An integer-valued exact number, and whether it is odd.
IsInteger(v) == v.k = "num" /\ v.d = 1

IsOddInteger(v) == IsInteger(v) /\ v.n % 2 # 0

\* -v
Neg(v) ==
    IF ~Standard(v) THEN Unmodelled
    ELSE IF isNaN(v) THEN NaN
    ELSE IF v.k = "Infinity" THEN NegInfinity
    ELSE IF v.k = "-Infinity" THEN PosInfinity
    ELSE IF v.k = "-0" THEN PosZero
    ELSE IF v.n = 0 THEN NegZero
    ELSE Num(-v.n, v.d)

\* a + b
Add(a, b) ==
    IF ~Standard(a) \/ ~Standard(b) THEN Unmodelled
    ELSE IF isNaN(a) \/ isNaN(b) THEN NaN
    ELSE IF IsInf(a) /\ IsInf(b) THEN (IF a.k = b.k THEN a ELSE NaN)
    ELSE IF IsInf(a) THEN a
    ELSE IF IsInf(b) THEN b
    ELSE IF IsZero(a) /\ IsZero(b)
         THEN (IF a.k = "-0" /\ b.k = "-0" THEN NegZero ELSE PosZero)
    ELSE IF IsZero(a) THEN b
    ELSE IF IsZero(b) THEN a
    ELSE Num(a.n * b.d + b.n * a.d, a.d * b.d)

\* a - b
Sub(a, b) == Add(a, Neg(b))

\* a * b
Mul(a, b) ==
    IF ~Standard(a) \/ ~Standard(b) THEN Unmodelled
    ELSE IF isNaN(a) \/ isNaN(b) THEN NaN
    ELSE IF (IsInf(a) /\ IsZero(b)) \/ (IsZero(a) /\ IsInf(b)) THEN NaN
    ELSE IF IsInf(a) \/ IsInf(b) THEN Inf(Sgn(a) * Sgn(b))
    ELSE IF IsZero(a) \/ IsZero(b) THEN Zero(Sgn(a) * Sgn(b))
    ELSE Num(a.n * b.n, a.d * b.d)

\* a / b
Quot(a, b) ==
    IF ~Standard(a) \/ ~Standard(b) THEN Unmodelled
    ELSE IF isNaN(a) \/ isNaN(b) THEN NaN
    ELSE IF (IsInf(a) /\ IsInf(b)) \/ (IsZero(a) /\ IsZero(b)) THEN NaN
    ELSE IF IsInf(a) \/ IsZero(b) THEN Inf(Sgn(a) * Sgn(b))
    ELSE IF IsInf(b) \/ IsZero(a) THEN Zero(Sgn(a) * Sgn(b))
    ELSE Num(a.n * b.d, a.d * b.n)

\* x^e for integers x >= 1, e >= 0, stopped once it exceeds MaxMagnitude.
RECURSIVE PowAcc(_, _, _)
PowAcc(x, e, acc) ==
    IF e = 0 \/ x = 1 \/ acc > MaxMagnitude THEN acc ELSE PowAcc(x, e - 1, acc * x)

\* floor(log2(n/d)) for integers n, d >= 1.
RECURSIVE FloorLog2Up(_, _, _)
FloorLog2Up(n, d, l) == IF d * 2^(l + 1) <= n THEN FloorLog2Up(n, d, l + 1) ELSE l

RECURSIVE FloorLog2Down(_, _, _)
FloorLog2Down(n, d, l) == IF n * 2^l >= d THEN -l ELSE FloorLog2Down(n, d, l + 1)

FloorLog2(n, d) == IF n >= d THEN FloorLog2Up(n, d, 0) ELSE FloorLog2Down(n, d, 1)

Min(x, y) == IF x <= y THEN x ELSE y

Max(x, y) == IF x >= y THEN x ELSE y

\* Math.pow(a, b) for exact finite non-zero a, b when the power is not an exact
\* number of the model: the binary exponent of the result lies between lo / b.d
\* and hi / b.d.  An exponent of 1024 or more is an overflow to an infinity,
\* one below -1075 an underflow to a zero, one in the normal range a finite
\* non-zero double.
PowBetween(a, b, s, lo, hi) ==
    IF lo >= 2^10 * b.d THEN Inf(s)
    ELSE IF hi <= -(2^10 + 52) * b.d THEN Zero(s)
    ELSE IF hi <= (2^10 - 1) * b.d /\ lo >= -(2^10 - 2) * b.d
         THEN Val("pow", a.n, a.d, b.n, b.d)
    ELSE Unmodelled

\* log2|a| lies in [l, l+1).
PowByLog(a, b, s, l) ==
    PowBetween(a, b, s, Min(b.n * l, b.n * (l + 1)), Max(b.n * l, b.n * (l + 1)))

PowByRange(a, b, s) == PowByLog(a, b, s, FloorLog2(Abs(a.n), a.d))

\* Math.pow(a, b) for an integer b, pn and pd being |a.n| and a.d to the |b|.
PowInteger(a, b, s, pn, pd) ==
    IF pn > MaxMagnitude \/ pd > MaxMagnitude THEN PowByRange(a, b, s)
    ELSE IF b.n > 0 THEN Num(s * pn, pd)
    ELSE IF IsPow2(pn) THEN Num(s * pd, pn)
    ELSE Val("pow", a.n, a.d, b.n, b.d)

\* Math.pow(a, b) for exact finite non-zero a and b.
PowFinite(a, b) ==
    IF b.d # 1 THEN (IF a.n < 0 THEN NaN ELSE PowByRange(a, b, 1))
    ELSE PowInteger(a, b, IF a.n < 0 /\ b.n % 2 # 0 THEN -1 ELSE 1,
                    PowAcc(Abs(a.n), Abs(b.n), 1), PowAcc(a.d, Abs(b.n), 1))

\* Math.pow(a, b): ECMAScript Number::exponentiate.
MathPow(a, b) ==
    IF ~Standard(a) \/ ~Standard(b) THEN Unmodelled
    ELSE IF isNaN(b) THEN NaN
    ELSE IF IsZero(b) THEN One
    ELSE IF isNaN(a) THEN NaN
    ELSE IF IsInf(b)
         THEN IF IsInf(a) \/ (Exact(a) /\ Abs(a.n) > a.d)
              THEN (IF b.k = "Infinity" THEN PosInfinity ELSE PosZero)
              ELSE IF Exact(a) /\ Abs(a.n) = a.d THEN NaN
              ELSE (IF b.k = "Infinity" THEN PosZero ELSE PosInfinity)
    ELSE IF IsInf(a)
         THEN IF Sgn(b) > 0
              THEN Inf(IF a.k = "-Infinity" /\ IsOddInteger(b) THEN -1 ELSE 1)
              ELSE Zero(IF a.k = "-Infinity" /\ IsOddInteger(b) THEN -1 ELSE 1)
    ELSE IF IsZero(a)
         THEN IF Sgn(b) > 0
              THEN Zero(IF a.k = "-0" /\ IsOddInteger(b) THEN -1 ELSE 1)
              ELSE Inf(IF a.k = "-0" /\ IsOddInteger(b) THEN -1 ELSE 1)
    ELSE PowFinite(a, b)

\* The integer square root of n >= 0, or -1 when n is no perfect square.
RECURSIVE RootFrom(_, _)
RootFrom(n, r) == IF r * r = n THEN r ELSE IF r * r > n THEN -1 ELSE RootFrom(n, r + 1)

\* Math.sqrt(a): correctly rounded, so exact on a perfect square.
MathSqrt(a) ==
    IF ~Standard(a) THEN Unmodelled
    ELSE IF isNaN(a) \/ Lt0(a) THEN NaN
    ELSE IF a.k = "Infinity" \/ IsZero(a) THEN a
    ELSE IF RootFrom(a.n, 0) >= 0 /\ RootFrom(a.d, 0) >= 0
         THEN Num(RootFrom(a.n, 0), RootFrom(a.d, 0))
    ELSE Val("sqrt", a.n, a.d, 0, 1)

\* Math.sin(x), Math.cos(x), Math.tan(x) on a result of toRadians: no finite
\* non-zero double is a multiple of pi/2, so the result is finite, and non-zero.
MathSin(x) ==
    IF ~Decided(x) THEN Unmodelled
    ELSE IF isNaN(x) \/ IsInf(x) THEN NaN
    ELSE IF IsZero(x) THEN x
    ELSE IF x.k = "radians" THEN Val("sin", x.n, x.d, 0, 1)
    ELSE Unmodelled

MathCos(x) ==
    IF ~Decided(x) THEN Unmodelled
    ELSE IF isNaN(x) \/ IsInf(x) THEN NaN
    ELSE IF IsZero(x) THEN One
    ELSE IF x.k = "radians" THEN Val("cos", x.n, x.d, 0, 1)
    ELSE Unmodelled

MathTan(x) ==
    IF ~Decided(x) THEN Unmodelled
    ELSE IF isNaN(x) \/ IsInf(x) THEN NaN
    ELSE IF IsZero(x) THEN x
    ELSE IF x.k = "radians" THEN Val("tan", x.n, x.d, 0, 1)
    ELSE Unmodelled

\* degrees * (Math.PI / 180): the factor is a positive double that is no
\* exact number of the model, so only the product's special cases are exact.
toRadians(degrees) ==
    IF ~Decided(degrees) THEN Unmodelled
    ELSE IF isNaN(degrees) THEN NaN
    ELSE IF IsInf(degrees) \/ IsZero(degrees) THEN degrees
    ELSE IF Exact(degrees) THEN Val("radians", degrees.n, degrees.d, 0, 1)
    ELSE Unmodelled

(***************************************************************************)
(* Strings: trim, split(/\s+/), parseFloat                                 *)
(***************************************************************************)
\* The white space of trim, of \s and of parseFloat: WhiteSpace and
\* LineTerminator of ECMAScript, which are tab, line feed, vertical tab, form
\* feed, carriage return, space, no-break space, U+1680, U+2000 to U+200A,
\* U+2028, U+2029, U+202F, U+205F, U+3000 and U+FEFF.
WhiteSpace ==
    { " ", "\t", "\n", "U+000B", "\f", "\r", "U+00A0", "U+1680",
      "U+2000", "U+2001", "U+2002", "U+2003", "U+2004", "U+2005", "U+2006",
      "U+2007", "U+2008", "U+2009", "U+200A",
      "U+2028", "U+2029", "U+202F", "U+205F", "U+3000", "U+FEFF" }

RECURSIVE TrimStart(_)
TrimStart(s) == IF s # <<>> /\ Head(s) \in WhiteSpace THEN TrimStart(Tail(s)) ELSE s

RECURSIVE TrimEnd(_)
TrimEnd(s) ==
    IF s # <<>> /\ s[Len(s)] \in WhiteSpace THEN TrimEnd(SubSeq(s, 1, Len(s) - 1)) ELSE s

\* String.prototype.trim
trim(s) == TrimEnd(TrimStart(s))

\* The index after one white space character: split(/\s/).
SkipOneWhiteSpace(s, p) == IF p <= Len(s) /\ s[p] \in WhiteSpace THEN p + 1 ELSE p

\* The first index from p on that holds no white space.
RECURSIVE SkipWhiteSpace(_, _)
SkipWhiteSpace(s, p) ==
    IF p <= Len(s) /\ s[p] \in WhiteSpace THEN SkipWhiteSpace(s, p + 1) ELSE p

\* String.prototype.split(/\s+/): the pieces between the runs of white space,
\* an empty piece where the string starts or ends with one, [""] for "".
RECURSIVE SplitFrom(_, _, _, _)
SplitFrom(s, p, piece, pieces) ==
    IF p > Len(s) THEN Append(pieces, piece)
    ELSE IF s[p] \in WhiteSpace
         THEN SplitFrom(s, SkipWhiteSpace(s, p), <<>>, Append(pieces, piece))
    ELSE SplitFrom(s, p + 1, Append(piece, s[p]), pieces)

split(s) == SplitFrom(s, 1, <<>>, <<>>)

DecimalDigits == <<"0", "1", "2", "3", "4", "5", "6", "7", "8", "9">>

IsDigit(c) == \E i \in 1..Len(DecimalDigits) : DecimalDigits[i] = c

DigitValue(c) == (CHOOSE i \in 1..Len(DecimalDigits) : DecimalDigits[i] = c) - 1

\* The first index from p on that holds no decimal digit.
RECURSIVE DigitRunEnd(_, _)
DigitRunEnd(s, p) == IF p <= Len(s) /\ IsDigit(s[p]) THEN DigitRunEnd(s, p + 1) ELSE p

\* The value of the decimal digits s[from .. to-1].
RECURSIVE DigitsValue(_, _, _)
DigitsValue(s, from, to) ==
    IF from >= to THEN 0 ELSE DigitsValue(s, from, to - 1) * 10 + DigitValue(s[to - 1])

RECURSIVE NumDigits(_)
NumDigits(m) == IF m < 10 THEN 1 ELSE 1 + NumDigits(m \div 10)

\* The double nearest to sign * m * 10^scale (m >= 0): decimal to binary
\* conversion is correctly rounded.  10^309 and more is an infinity, less
\* than 10^-324 a zero.
Decimal(sign, m, scale) ==
    IF m = 0 THEN Zero(sign)
    ELSE IF NumDigits(m) + Abs(scale) <= 9
         THEN IF scale >= 0 THEN Num(sign * m * 10^scale, 1)
              ELSE Num(sign * m, 10^(-scale))
    ELSE IF NumDigits(m) + scale >= 310 THEN Inf(sign)
    ELSE IF NumDigits(m) + scale <= -324 THEN Zero(sign)
    ELSE Unmodelled

InfinityLiteral == <<"I", "n", "f", "i", "n", "i", "t", "y">>

\* The exponent part at s[q], e or E with an optional sign and digits from e1
\* on: its value, 0 when it has no digit (it is then no part of the literal).
ExponentValue(s, sign, e1, expEnd) ==
    IF expEnd > e1 THEN sign * DigitsValue(s, e1, expEnd) ELSE 0

ExponentFrom(s, e0) ==
    IF e0 <= Len(s) /\ s[e0] = "-" THEN ExponentValue(s, -1, e0 + 1, DigitRunEnd(s, e0 + 1))
    ELSE IF e0 <= Len(s) /\ s[e0] = "+" THEN ExponentValue(s, 1, e0 + 1, DigitRunEnd(s, e0 + 1))
    ELSE ExponentValue(s, 1, e0, DigitRunEnd(s, e0))

Exponent(s, q) == IF q <= Len(s) /\ s[q] \in {"e", "E"} THEN ExponentFrom(s, q + 1) ELSE 0

\* The digits s[p0 .. intEnd-1], then the point and the digits up to fracEnd-1
\* when fracEnd > intEnd.
FractionDigits(intEnd, fracEnd) == IF fracEnd > intEnd THEN fracEnd - intEnd - 1 ELSE 0

Mantissa(s, p0, intEnd, fracEnd) ==
    DigitsValue(s, p0, intEnd) * 10^FractionDigits(intEnd, fracEnd)
    + (IF fracEnd > intEnd THEN DigitsValue(s, intEnd + 1, fracEnd) ELSE 0)

ParseDecimal(s, sign, p0, intEnd, fracEnd) ==
    IF (intEnd - p0) + FractionDigits(intEnd, fracEnd) = 0 THEN NaN
    ELSE Decimal(sign, Mantissa(s, p0, intEnd, fracEnd),
                 Exponent(s, fracEnd) - FractionDigits(intEnd, fracEnd))

ParseFraction(s, sign, p0, intEnd) ==
    IF intEnd <= Len(s) /\ s[intEnd] = "."
    THEN ParseDecimal(s, sign, p0, intEnd, DigitRunEnd(s, intEnd + 1))
    ELSE ParseDecimal(s, sign, p0, intEnd, intEnd)

ParseUnsigned(s, sign, p0) ==
    IF Len(s) >= p0 + 7 /\ SubSeq(s, p0, p0 + 7) = InfinityLiteral THEN Inf(sign)
    ELSE ParseFraction(s, sign, p0, DigitRunEnd(s, p0))

ParseSigned(s) ==
    IF s # <<>> /\ s[1] = "-" THEN ParseUnsigned(s, -1, 2)
    ELSE IF s # <<>> /\ s[1] = "+" THEN ParseUnsigned(s, 1, 2)
    ELSE ParseUnsigned(s, 1, 1)

\* Number.parseFloat: the longest prefix of the string (after leading white
\* space) that is a StrDecimalLiteral, an optional sign followed by Infinity
\* or by digits with an optional point and an optional exponent part; what
\* follows the prefix is ignored, and NaN is the result when there is none.
parseFloat(string) == ParseSigned(TrimStart(string))

(***************************************************************************)
(* The evaluator                                                           *)
(***************************************************************************)
SUPPORTED_OPERATORS ==
    { <<"+">>, <<"-">>, <<"*">>, <<"/">>, <<"^">>,
      <<"s", "q", "r", "t">>, <<"s", "i", "n">>, <<"c", "o", "s">>, <<"t", "a", "n">> }

\* The operators that evaluateRPN hands to processUnaryOperator.
UnaryOperators == { <<"s", "q", "r", "t">>, <<"s", "i", "n">>, <<"c", "o", "s">>, <<"t", "a", "n">> }

\* !isNaN(Number.parseFloat(token)) && isFinite(Number.parseFloat(token))
isNumber(token) ==
    IF Decided(parseFloat(token))
    THEN ~isNaN(parseFloat(token)) /\ isFinite(parseFloat(token))
    ELSE NotDecided

\* new Error(message): the message's fixed text and the token or operator
\* it interpolates (the empty string when it names none).
Error(text, name) == [text |-> text, name |-> name]

NoError == Error("", <<>>)

Undefined == Val("undefined", 0, 1, 0, 1)

\* Array.prototype.pop and push, on a stack whose top is its last element.
pop(stack) ==
    IF stack = <<>> THEN [value |-> Undefined, stack |-> stack]
    ELSE [value |-> stack[Len(stack)], stack |-> SubSeq(stack, 1, Len(stack) - 1)]

push(stack, value) == Append(stack, value)

\* What a step on the stack leaves: the stack, and the Error thrown (NoError
\* when the step returns).
Pushed(stack, value) == [stack |-> push(stack, value), thrown |-> NoError]

Thrown(stack, error) == [stack |-> stack, thrown |-> error]

\* A step whose test is on a double that the model does not compute: whether
\* it pushes or throws is not decided, and the scan ends there.
NotModelled == Error(NotDecided, <<>>)

Undecided(stack) == [stack |-> stack, thrown |-> NotModelled]

\* The switch of processBinaryOperator without the test of the divisor.
BinarySwitchUnguarded(stack, operator, a, b) ==
    CASE operator = <<"+">> -> Pushed(stack, Add(a, b))
      [] operator = <<"-">> -> Pushed(stack, Sub(a, b))
      [] operator = <<"*">> -> Pushed(stack, Mul(a, b))
      [] operator = <<"/">> -> Pushed(stack, Quot(a, b))
      [] operator = <<"^">> -> Pushed(stack, MathPow(a, b))
      [] OTHER -> Thrown(stack, Error("Unknown binary operator:", operator))

\* The switch of processBinaryOperator, after b and then a were popped.
BinarySwitch(stack, operator, a, b) ==
    CASE operator = <<"+">> -> Pushed(stack, Add(a, b))
      [] operator = <<"-">> -> Pushed(stack, Sub(a, b))
      [] operator = <<"*">> -> Pushed(stack, Mul(a, b))
      [] operator = <<"/">> ->
           IF ~Decided(b) THEN Undecided(stack)
           ELSE IF IsZero(b) THEN Thrown(stack, Error("Division by zero", <<>>))
           ELSE Pushed(stack, Quot(a, b))
      [] operator = <<"^">> -> Pushed(stack, MathPow(a, b))
      [] OTHER -> Thrown(stack, Error("Unknown binary operator:", operator))

\* processBinaryOperator with the two pops read in the other order: a is the
\* value popped first, b the one popped second.
processBinaryOperatorSwapped(stack, operator) ==
    IF Len(stack) < 2
    THEN Thrown(stack, Error("Insufficient operands for operator", operator))
    ELSE BinarySwitch(pop(pop(stack).stack).stack, operator,
                      pop(stack).value, pop(pop(stack).stack).value)

\* processBinaryOperator with the length test of processUnaryOperator.
processBinaryOperatorOneOperand(stack, operator) ==
    IF Len(stack) < 1
    THEN Thrown(stack, Error("Insufficient operands for operator", operator))
    ELSE BinarySwitch(pop(pop(stack).stack).stack, operator,
                      pop(pop(stack).stack).value, pop(stack).value)

processBinaryOperator(stack, operator) ==
    IF Len(stack) < 2
    THEN Thrown(stack, Error("Insufficient operands for operator", operator))
    ELSE BinarySwitch(pop(pop(stack).stack).stack, operator,
                      pop(pop(stack).stack).value, pop(stack).value)

\* The switch of processUnaryOperator without the test of the sign.
UnarySwitchUnguarded(stack, operator, a) ==
    CASE operator = <<"s", "q", "r", "t">> -> Pushed(stack, MathSqrt(a))
      [] operator = <<"s", "i", "n">> -> Pushed(stack, MathSin(toRadians(a)))
      [] operator = <<"c", "o", "s">> -> Pushed(stack, MathCos(toRadians(a)))
      [] operator = <<"t", "a", "n">> -> Pushed(stack, MathTan(toRadians(a)))
      [] OTHER -> Thrown(stack, Error("Unknown unary operator:", operator))

\* The switch of processUnaryOperator whose case "sqrt" pushes nothing.
UnarySwitchSqrtLost(stack, operator, a) ==
    CASE operator = <<"s", "q", "r", "t">> ->
           IF ~SignDecided(a) THEN Undecided(stack)
           ELSE IF Lt0(a) THEN Thrown(stack, Error("Square root of negative number", <<>>))
           ELSE [stack |-> stack, thrown |-> NoError]
      [] operator = <<"s", "i", "n">> -> Pushed(stack, MathSin(toRadians(a)))
      [] operator = <<"c", "o", "s">> -> Pushed(stack, MathCos(toRadians(a)))
      [] operator = <<"t", "a", "n">> -> Pushed(stack, MathTan(toRadians(a)))
      [] OTHER -> Thrown(stack, Error("Unknown unary operator:", operator))

\* The switch of processUnaryOperator, after a was popped.
UnarySwitch(stack, operator, a) ==
    CASE operator = <<"s", "q", "r", "t">> ->
           IF ~SignDecided(a) THEN Undecided(stack)
           ELSE IF Lt0(a) THEN Thrown(stack, Error("Square root of negative number", <<>>))
           ELSE Pushed(stack, MathSqrt(a))
      [] operator = <<"s", "i", "n">> -> Pushed(stack, MathSin(toRadians(a)))
      [] operator = <<"c", "o", "s">> -> Pushed(stack, MathCos(toRadians(a)))
      [] operator = <<"t", "a", "n">> -> Pushed(stack, MathTan(toRadians(a)))
      [] OTHER -> Thrown(stack, Error("Unknown unary operator:", operator))

processUnaryOperator(stack, operator) ==
    IF Len(stack) < 1
    THEN Thrown(stack, Error("Insufficient operands for operator", operator))
    ELSE UnarySwitch(pop(stack).stack, operator, pop(stack).value)

\* The body of evaluateRPN's loop for one token.
ProcessToken(stack, token) ==
    IF ~Decided(parseFloat(token)) THEN Undecided(stack)
    ELSE IF isNumber(token) THEN Pushed(stack, parseFloat(token))
    ELSE IF token \in SUPPORTED_OPERATORS
         THEN IF token \in UnaryOperators
              THEN processUnaryOperator(stack, token)
              ELSE processBinaryOperator(stack, token)
    ELSE Thrown(stack, Error("Unknown token:", token))

\* evaluateRPN's loop from token number i on: the stack it ends with, the
\* number of tokens processed without a throw, and the Error thrown.
RECURSIVE ProcessTokens(_, _, _)
RECURSIVE AfterToken(_, _, _)
AfterToken(tokens, i, r) ==
    IF r.thrown # NoError THEN [stack |-> r.stack, done |-> i - 1, thrown |-> r.thrown]
    ELSE ProcessTokens(tokens, i + 1, r.stack)

ProcessTokens(tokens, i, stack) ==
    IF i > Len(tokens) THEN [stack |-> stack, done |-> Len(tokens), thrown |-> NoError]
    ELSE AfterToken(tokens, i, ProcessToken(stack, tokens[i]))

\* What a call leaves: a returned value or a thrown Error.
Return(value) == [kind |-> "return", value |-> value, error |-> NoError]

Throw(error) == [kind |-> "throw", value |-> Undefined, error |-> error]

\* The call met a test that the model does not decide.
NoOutcome == [kind |-> NotDecided, value |-> Unmodelled, error |-> NotModelled]

\* The check of the final stack testing only for an empty stack.
CheckStackNotEmpty(stack) ==
    IF Len(stack) < 1
    THEN Throw(Error("Invalid expression: insufficient operands", <<>>))
    ELSE Return(stack[1])

\* The check of the final stack, after the loop, and the return of stack[0].
CheckStack(stack) ==
    IF Len(stack) # 1
    THEN IF Len(stack) > 1
         THEN Throw(Error("Invalid expression: too many operands", <<>>))
         ELSE Throw(Error("Invalid expression: insufficient operands", <<>>))
    ELSE Return(stack[1])

\* The test of the expression without the trim: !expression
IsEmptyString(expression) == expression = <<>>

\* !expression || expression.trim().length === 0
IsBlank(expression) == expression = <<>> \/ Len(trim(expression)) = 0

AfterLoop(r) ==
    IF r.thrown = NotModelled THEN NoOutcome
    ELSE IF r.thrown # NoError THEN Throw(r.thrown)
    ELSE CheckStack(r.stack)

evaluateRPN(expression) ==
    IF IsBlank(expression) THEN Throw(Error("Expression cannot be empty", <<>>))
    ELSE AfterLoop(ProcessTokens(split(trim(expression)), 1, <<>>))

\* validateRPN whose catch returns true as well.
TryEvaluateTrue(outcome) == "true"

\* try { evaluateRPN(expression); return true } catch (error) { return false }
\* on what the call of evaluateRPN left: the boolean returned, as a string.
TryEvaluate(outcome) ==
    IF outcome.kind = "return" THEN "true"
    ELSE IF outcome.kind = "throw" THEN "false"
    ELSE NotDecided

validateRPN(expression) == TryEvaluate(evaluateRPN(expression))

(***************************************************************************)
(* The inputs                                                              *)
(***************************************************************************)
\* The tokens of the enumerated expressions: number literals, tokens that
\* only start like a number, a literal too large for a double, words that
\* are no operator, and the nine operators.
Vocabulary ==
    { <<"1", "0">>,
      <<"3">>,
      <<"0">>,
      <<"-", "4">>,
      <<"0", ".", "5">>,
      <<"1", ".", "2", ".", "3">>,
      <<"3", "a", "b", "c">>,
      <<"1", "e", "9", "9", "9">>,
      <<"f", "o", "o">>,
      <<"S", "Q", "R", "T">>,
      <<"+">>,
      <<"-">>,
      <<"*">>,
      <<"/">>,
      <<"^">>,
      <<"s", "q", "r", "t">>,
      <<"s", "i", "n">>,
      <<"c", "o", "s">>,
      <<"t", "a", "n">> }

\* Expressions of spec.md and of the README, and some with other white space.
Examples ==
    { <<"3", " ", "4", " ", "+", " ", "5", " ", "*">>,
      <<"3", " ", "4", " ", "5", " ", "*", " ", "+">>,
      <<"8", " ", "3", " ", "3", " ", "-", " ", "/">>,
      <<"3", " ", "7", " ", "-", " ", "s", "q", "r", "t">>,
      <<"8", " ", "0", " ", "/", " ", "f", "o", "o">>,
      <<"3", " ", "f", "o", "o", " ", "4">>,
      <<"3", " ", "f", "o", "o", " ", "+">>,
      <<"9", " ", "s", "q", "r", "t">>,
      <<"1", "6", " ", "s", "q", "r", "t">>,
      <<"9", "0", " ", "s", "i", "n">>,
      <<"4", "5", " ", "t", "a", "n">>,
      <<"2", " ", "3", " ", "^">>,
      <<"8", " ", "2", " ", "/">>,
      <<"6", " ", "7", " ", "*">>,
      <<" ", " ", "3", " ", " ", " ", "4", " ", "+", " ", " ">>,
      <<"\t", "3", " ", "4", "\t", "+">>,
      <<"3", " ", "S", "i", "n">>,
      <<"3", " ", "4">>,
      <<"3", " ", "4", " ", "+">> }

\* The inputs that hold no token.
Blanks ==
    { <<>>,
      <<" ">>,
      <<" ", " ">>,
      <<" ", "\t", " ">>,
      <<"\n", "U+3000">> }

\* The tokens joined by single spaces.
RECURSIVE Join(_)
Join(ts) ==
    IF ts = <<>> THEN <<>>
    ELSE IF Len(ts) = 1 THEN ts[1]
    ELSE ts[1] \o <<" ">> \o Join(Tail(ts))

TokenLists == UNION { [1..n -> Vocabulary] : n \in 1..MaxTokens }

\* Whether the scan of the tokens from number i on pushes only numbers that
\* the model computes, and so tests no other.
RECURSIVE Modelled(_, _, _)
RECURSIVE ModelledAfter(_, _, _)
ModelledAfter(tokens, i, r) ==
    \/ r.thrown \notin {NoError, NotModelled}
    \/ /\ r.thrown = NoError
       /\ \A j \in 1..Len(r.stack) : r.stack[j].k # "unmodelled"
       /\ Modelled(tokens, i + 1, r.stack)

Modelled(tokens, i, stack) ==
    i > Len(tokens) \/ ModelledAfter(tokens, i, ProcessToken(stack, tokens[i]))

Inputs ==
    { e \in { Join(ts) : ts \in TokenLists } \cup Examples \cup Blanks :
        IsBlank(e) \/ Modelled(split(trim(e)), 1, <<>>) }

(***************************************************************************)
(* getEvaluationSteps                                                      *)
(***************************************************************************)
\* A step { token, stack, action }; the action is the text "Push <token>",
\* "Apply <token> to <a>" or "Apply <a> <token> <b>", kept as its parts.
Step(token, stack, action) == [token |-> token, stack |-> stack, action |-> action]

Action(kind, token, a, b) == [kind |-> kind, token |-> token, a |-> a, b |-> b]

\* stack.push(result) was done: steps.push({ token, stack: [...stack], action })
Recorded(stack, steps, token, action) ==
    [stack |-> stack, steps |-> Append(steps, Step(token, stack, action))]

\* The two switches of getEvaluationSteps, which test no operand.
UnaryResult(token, a) ==
    CASE token = <<"s", "q", "r", "t">> -> MathSqrt(a)
      [] token = <<"s", "i", "n">> -> MathSin(toRadians(a))
      [] token = <<"c", "o", "s">> -> MathCos(toRadians(a))
      [] token = <<"t", "a", "n">> -> MathTan(toRadians(a))
      [] OTHER -> NaN

BinaryResult(token, a, b) ==
    CASE token = <<"+">> -> Add(a, b)
      [] token = <<"-">> -> Sub(a, b)
      [] token = <<"*">> -> Mul(a, b)
      [] token = <<"/">> -> Quot(a, b)
      [] token = <<"^">> -> MathPow(a, b)
      [] OTHER -> NaN

\* The branch of a number: push, and the step "Push <token>".
TraceNumber(stack, steps, token) ==
    Recorded(push(stack, parseFloat(token)), steps, token,
             Action("Push", token, Undefined, Undefined))

\* The branch of sqrt, sin, cos, tan: a = pop, push, "Apply <token> to <a>".
TraceUnaryOperator(stack, steps, token) ==
    Recorded(push(pop(stack).stack, UnaryResult(token, pop(stack).value)), steps, token,
             Action("Apply to", token, pop(stack).value, Undefined))

\* The branch of the other operators with the operands read in the other order.
TraceBinaryOperatorSwapped(stack, steps, token) ==
    Recorded(push(pop(pop(stack).stack).stack,
                  BinaryResult(token, pop(stack).value, pop(pop(stack).stack).value)),
             steps, token,
             Action("Apply", token, pop(stack).value, pop(pop(stack).stack).value))

\* The branch of the other operators with the length test of
\* processBinaryOperator, a token without its operands being passed over.
TraceBinaryOperatorGuarded(stack, steps, token) ==
    IF Len(stack) < 2 THEN [stack |-> stack, steps |-> steps]
    ELSE Recorded(push(pop(pop(stack).stack).stack,
                       BinaryResult(token, pop(pop(stack).stack).value, pop(stack).value)),
                  steps, token,
                  Action("Apply", token, pop(pop(stack).stack).value, pop(stack).value))

\* The branch of the other operators: b = pop, a = pop, push,
\* "Apply <a> <token> <b>".
TraceBinaryOperator(stack, steps, token) ==
    Recorded(push(pop(pop(stack).stack).stack,
                  BinaryResult(token, pop(pop(stack).stack).value, pop(stack).value)),
             steps, token,
             Action("Apply", token, pop(pop(stack).stack).value, pop(stack).value))

\* The body of the loop of getEvaluationSteps for one token: a token that is
\* no number and no operator changes nothing.  Where the model does not
\* decide whether the token is a number, the step and what follows it are
\* not modelled.
TraceToken(stack, steps, token) ==
    IF ~Decided(parseFloat(token))
    THEN Recorded(<<Unmodelled>>, steps, token, Action(NotDecided, token, Undefined, Undefined))
    ELSE IF isNumber(token) THEN TraceNumber(stack, steps, token)
    ELSE IF token \in SUPPORTED_OPERATORS
         THEN IF token \in UnaryOperators
              THEN TraceUnaryOperator(stack, steps, token)
              ELSE TraceBinaryOperator(stack, steps, token)
    ELSE [stack |-> stack, steps |-> steps]

\* The loop from token number i on: the steps it ends with.
RECURSIVE TraceTokens(_, _, _, _)
RECURSIVE TraceAfter(_, _, _)
TraceAfter(tokens, i, r) ==
    IF r.steps # <<>> /\ r.steps[Len(r.steps)].action.kind = NotDecided THEN r.steps
    ELSE TraceTokens(tokens, i + 1, r.stack, r.steps)

TraceTokens(tokens, i, stack, steps) ==
    IF i > Len(tokens) THEN steps
    ELSE TraceAfter(tokens, i, TraceToken(stack, steps, tokens[i]))

getEvaluationSteps(expression) == TraceTokens(split(trim(expression)), 1, <<>>, <<>>)

\* The expressions traced: those of the vocabulary, the examples, the blank
\* ones, whose trace holds only numbers that the model computes.
TraceModelled(steps) ==
    \A i \in 1..Len(steps) : \A j \in 1..Len(steps[i].stack) :
        steps[i].stack[j].k # "unmodelled"

TraceInputs ==
    { e \in { Join(ts) : ts \in TokenLists } \cup Examples \cup Blanks :
        TraceModelled(getEvaluationSteps(e)) }

(***************************************************************************)
(* RPNCalculator (src/app/page.tsx): its values                            *)
(***************************************************************************)
\* The number of Dates the page creates, and the length up to which the
\* quick insert buttons are pressed.
MaxClock == 11

MaxExpression == 7

\* Array.prototype.slice(start, end) for 0 <= start <= end.
slice(s, start, end) == SubSeq(s, start + 1, Min(end, Len(s)))

\* const newCalculation = { expression: expression.trim(), result:
\* calculationResult, timestamp: new Date() }, the Date being the
\* timestamp-th one that the page creates.
NewCalculationUntrimmed(expression, calculationResult, timestamp) ==
    [expression |-> expression, result |-> calculationResult, timestamp |-> timestamp]

NewCalculation(expression, calculationResult, timestamp) ==
    [expression |-> trim(expression), result |-> calculationResult, timestamp |-> timestamp]

\* The update of the history that keeps all the records there were.
AddToHistoryUncut(prev, newCalculation) == <<newCalculation>> \o prev

\* (prev) => [newCalculation, ...prev.slice(0, 9)]
AddToHistory(prev, newCalculation) == <<newCalculation>> \o slice(prev, 0, 9)

\* (prev) => prev + (prev ? " " : "") + token
Inserted(prev, token) == prev \o (IF prev # <<>> THEN <<" ">> ELSE <<>>) \o token

\* setError("Please enter an expression")
PleaseEnter == Error("Please enter an expression", <<>>)

\* The values that the user types into the input, the quick insert buttons
\* pressed and the keys pressed in the input.
Typed == { <<" ">>, <<" ", "9">> }

QuickInsertButtons == SUPPORTED_OPERATORS

Pressed == { <<"s", "q", "r", "t">> }

Keys == { "Enter", "a" }

(***************************************************************************)
(* A call validateRPN(expression), and in it the call evaluateRPN(expression)*)
(***************************************************************************)
VARIABLES
    expression,  \* the argument
    pc,          \* evaluateRPN: "call", "loop", then "returned" or "thrown"
    tokens,      \* the const tokens of evaluateRPN
    done,        \* the number of tokens the loop has processed without a throw
    examined,    \* the indices of the tokens the loop body ran on, in order
    stack,       \* the const stack of evaluateRPN
    outcome,     \* what evaluateRPN returned or threw
    valid        \* what validateRPN returned: "true" or "false"

\* The state of the other operations, which a call of validateRPN leaves alone.
VARIABLES
    original,    \* the expression that the argument was made of by adding white space
    steps,       \* the const steps of getEvaluationSteps
    result,      \* RPNCalculator: the result state
    error,       \* RPNCalculator: the error state
    history,     \* RPNCalculator: the history state
    clock        \* the number of Dates that handleCalculate has created

others == <<original, steps, result, error, history, clock>>

vars == <<expression, pc, tokens, done, examined, stack, outcome, valid, others>>

Pending == [kind |-> "none", value |-> Undefined, error |-> NoError]

\* null, as a result and as an error message.
Null == Val("null", 0, 1, 0, 1)

NullMessage == Error("null", <<>>)

\* evaluateRPN is about to be called.
AtCall ==
    /\ pc = "call"
    /\ tokens = <<>>
    /\ done = 0
    /\ examined = <<>>
    /\ stack = <<>>
    /\ outcome = Pending
    /\ valid = "pending"

\* No trace is being recorded, and the page is as useState initializes it.
NoTrace == steps = <<>>

InitialPage ==
    /\ result = Null
    /\ error = NullMessage
    /\ history = <<>>
    /\ clock = 0

Init ==
    /\ expression \in Inputs
    /\ original = expression
    /\ AtCall
    /\ NoTrace
    /\ InitialPage

\* if (!expression || expression.trim().length === 0) throw
ThrowEmpty ==
    /\ pc = "call"
    /\ IsBlank(expression)
    /\ pc' = "thrown"
    /\ outcome' = Throw(Error("Expression cannot be empty", <<>>))
    /\ UNCHANGED <<expression, tokens, done, examined, stack, valid>>
    /\ UNCHANGED others

\* const tokens = expression.trim().split(/\s+/); const stack = []
Tokenize ==
    /\ pc = "call"
    /\ ~IsBlank(expression)
    /\ pc' = "loop"
    /\ tokens' = split(trim(expression))
    /\ stack' = <<>>
    /\ UNCHANGED <<expression, done, examined, outcome, valid>>
    /\ UNCHANGED others

\* One turn of the loop, r being what its body leaves: the token is pushed
\* or applied, or evaluateRPN ends with the Error thrown.
Turn(r) ==
    /\ stack' = r.stack
    /\ examined' = Append(examined, done + 1)
    /\ done' = IF r.thrown = NoError THEN done + 1 ELSE done
    /\ pc' = IF r.thrown = NoError THEN "loop" ELSE "thrown"
    /\ outcome' = IF r.thrown = NoError THEN outcome ELSE Throw(r.thrown)
    /\ UNCHANGED <<expression, tokens, valid>>
    /\ UNCHANGED others

Advance ==
    /\ pc = "loop"
    /\ done < Len(tokens)
    /\ ProcessToken(stack, tokens[done + 1]).thrown = NoError
    /\ Turn(ProcessToken(stack, tokens[done + 1]))

Abort ==
    /\ pc = "loop"
    /\ done < Len(tokens)
    /\ ProcessToken(stack, tokens[done + 1]).thrown \notin {NoError, NotModelled}
    /\ Turn(ProcessToken(stack, tokens[done + 1]))

\* After the loop: the check of the stack, and the return of stack[0].
Finish ==
    /\ pc = "loop"
    /\ done = Len(tokens)
    /\ outcome' = CheckStack(stack)
    /\ pc' = IF CheckStack(stack).kind = "return" THEN "returned" ELSE "thrown"
    /\ UNCHANGED <<expression, tokens, done, examined, stack, valid>>
    /\ UNCHANGED others

\* validateRPN returns: true after the call returned, false from its catch.
Validate ==
    /\ pc \in {"returned", "thrown"}
    /\ valid = "pending"
    /\ valid' = TryEvaluate(outcome)
    /\ UNCHANGED <<expression, pc, tokens, done, examined, stack, outcome>>
    /\ UNCHANGED others

Next == ThrowEmpty \/ Tokenize \/ Advance \/ Abort \/ Finish \/ Validate

Spec == Init /\ [][Next]_vars

(***************************************************************************)
(* A call validateRPN(expression) on an expression with white space added  *)
(***************************************************************************)
\* The runs of white space that are added: of spaces and line feeds.
Padding == {" ", "\n"}

Runs == UNION { [1..n -> Padding \cap WhiteSpace] : n \in 1..MaxRun }

\* The string s with the character at i replaced by the run.
Widen(s, i, run) == SubSeq(s, 1, i - 1) \o run \o SubSeq(s, i + 1, Len(s))

\* The expression e with a run of white space added in front, at the end, or
\* in the place of one white space character.
Variants(e) ==
    { run \o e : run \in Runs }
    \cup { e \o run : run \in Runs }
    \cup { Widen(e, i, run) : i \in { j \in 1..Len(e) : e[j] \in WhiteSpace }, run \in Runs }

PaddedInputs == { e \in Inputs : IsBlank(e) \/ Len(split(trim(e))) <= MaxPaddedTokens }

InitWhiteSpace ==
    /\ original \in PaddedInputs
    /\ expression \in Variants(original)
    /\ AtCall
    /\ NoTrace
    /\ InitialPage

SpecWhiteSpace == InitWhiteSpace /\ [][Next]_vars

(***************************************************************************)
(* A call getEvaluationSteps(expression)                                   *)
(***************************************************************************)
InitTrace ==
    /\ expression \in TraceInputs
    /\ original = expression
    /\ pc = "trace-call"
    /\ tokens = <<>>
    /\ done = 0
    /\ examined = <<>>
    /\ stack = <<>>
    /\ outcome = Pending
    /\ valid = "pending"
    /\ NoTrace
    /\ InitialPage

\* const tokens = expression.trim().split(/\s+/); const stack = []; const steps = []
TraceTokenize ==
    /\ pc = "trace-call"
    /\ pc' = "trace-loop"
    /\ tokens' = split(trim(expression))
    /\ stack' = <<>>
    /\ steps' = <<>>
    /\ UNCHANGED <<expression, done, examined, outcome, valid, original, result, error, history, clock>>

\* One turn of the loop, r being what its body leaves.
TraceTurn(r) ==
    /\ stack' = r.stack
    /\ steps' = r.steps
    /\ done' = done + 1
    /\ UNCHANGED <<expression, pc, tokens, examined, outcome, valid, original, result, error, history, clock>>

\* if (isNumber(token))
TracePush ==
    /\ pc = "trace-loop"
    /\ done < Len(tokens)
    /\ isNumber(tokens[done + 1])
    /\ TraceTurn(TraceToken(stack, steps, tokens[done + 1]))

\* else if (SUPPORTED_OPERATORS.has(token))
TraceApply ==
    /\ pc = "trace-loop"
    /\ done < Len(tokens)
    /\ ~isNumber(tokens[done + 1])
    /\ tokens[done + 1] \in SUPPORTED_OPERATORS
    /\ TraceTurn(TraceToken(stack, steps, tokens[done + 1]))

\* neither: the loop goes on to the next token
TraceSkip ==
    /\ pc = "trace-loop"
    /\ done < Len(tokens)
    /\ ~isNumber(tokens[done + 1])
    /\ tokens[done + 1] \notin SUPPORTED_OPERATORS
    /\ TraceTurn(TraceToken(stack, steps, tokens[done + 1]))

\* return steps
TraceReturn ==
    /\ pc = "trace-loop"
    /\ done = Len(tokens)
    /\ pc' = "trace-returned"
    /\ UNCHANGED <<expression, tokens, done, examined, stack, outcome, valid, others>>

NextTrace == TraceTokenize \/ TracePush \/ TraceApply \/ TraceSkip \/ TraceReturn

SpecTrace == InitTrace /\ [][NextTrace]_vars

(***************************************************************************)
(* The page RPNCalculator: pc is the handler that ran last                 *)
(***************************************************************************)
rest == <<tokens, done, examined, stack, outcome, valid, original, steps>>

InitPage ==
    /\ expression = <<>>
    /\ original = <<>>
    /\ pc = "mounted"
    /\ tokens = <<>>
    /\ done = 0
    /\ examined = <<>>
    /\ stack = <<>>
    /\ outcome = Pending
    /\ valid = "pending"
    /\ NoTrace
    /\ InitialPage

\* onChange={(e) => setExpression(e.target.value)}
onChange ==
    \E value \in Typed :
        /\ pc' = "onChange"
        /\ expression' = value
        /\ UNCHANGED <<result, error, history, clock, rest>>

\* if (!expression.trim()) { setError("Please enter an expression"); return }
CalculateBlank ==
    /\ error' = PleaseEnter
    /\ UNCHANGED <<result, history, clock>>

\* The try block, evaluateRPN having returned or thrown the outcome o, and
\* the catch block.
CalculateTry(o) ==
    IF o.kind = "return"
    THEN /\ clock < MaxClock
         /\ result' = o.value
         /\ error' = NullMessage
         /\ clock' = clock + 1
         /\ history' = AddToHistory(history, NewCalculation(expression, o.value, clock + 1))
    ELSE /\ o.kind = "throw"
         /\ error' = o.error
         /\ result' = Null
         /\ UNCHANGED <<history, clock>>

Calculate ==
    /\ IF trim(expression) = <<>>
       THEN CalculateBlank
       ELSE CalculateTry(evaluateRPN(trim(expression)))
    /\ UNCHANGED <<expression, rest>>

\* The Calculate button.
handleCalculate ==
    /\ pc' = "handleCalculate"
    /\ Calculate

\* if (e.key === "Enter") handleCalculate()
handleKeyPress ==
    \E key \in Keys :
        /\ pc' = "handleKeyPress"
        /\ IF key = "Enter"
           THEN Calculate
           ELSE UNCHANGED <<expression, result, error, history, clock, rest>>

clearAll ==
    /\ pc' = "clearAll"
    /\ expression' = <<>>
    /\ result' = Null
    /\ error' = NullMessage
    /\ UNCHANGED <<history, clock, rest>>

\* The button is rendered when history.length > 0.
clearHistory ==
    /\ Len(history) > 0
    /\ pc' = "clearHistory"
    /\ history' = <<>>
    /\ UNCHANGED <<expression, result, error, clock, rest>>

quickInsert ==
    \E token \in Pressed \cap QuickInsertButtons :
        /\ Len(Inserted(expression, token)) <= MaxExpression
        /\ pc' = "quickInsert"
        /\ expression' = Inserted(expression, token)
        /\ UNCHANGED <<result, error, history, clock, rest>>

\* setExpression(expr); setError(null)
useFromHistory(expr) ==
    /\ expression' = expr
    /\ error' = NullMessage
    /\ UNCHANGED <<result, history, clock, rest>>

\* onClick={() => { handleHistoryClick(calc.expression) }} of history.map
handleHistoryClick ==
    \E index \in 1..Len(history) :
        /\ pc' = "handleHistoryClick"
        /\ useFromHistory(history[index].expression)

NextPage ==
    \/ onChange
    \/ handleCalculate
    \/ handleKeyPress
    \/ clearAll
    \/ clearHistory
    \/ quickInsert
    \/ handleHistoryClick

SpecPage == InitPage /\ [][NextPage]_vars

(***************************************************************************)
(* The vocabulary of the properties (spec.md sections 3, 4.2 and 4.3)      *)
(***************************************************************************)
\* The operators of arity 2 and of arity 1.
Arity2 == { <<"+">>, <<"-">>, <<"*">>, <<"/">>, <<"^">> }

Arity1 == { <<"s", "q", "r", "t">>, <<"s", "i", "n">>, <<"c", "o", "s">>, <<"t", "a", "n">> }

\* op applied to (a, b) in that order, and op applied to a.
Apply2(op, a, b) ==
    CASE op = <<"+">> -> Add(a, b)
      [] op = <<"-">> -> Sub(a, b)
      [] op = <<"*">> -> Mul(a, b)
      [] op = <<"/">> -> Quot(a, b)
      [] op = <<"^">> -> MathPow(a, b)

Apply1(op, a) ==
    CASE op = <<"s", "q", "r", "t">> -> MathSqrt(a)
      [] op = <<"s", "i", "n">> -> MathSin(toRadians(a))
      [] op = <<"c", "o", "s">> -> MathCos(toRadians(a))
      [] op = <<"t", "a", "n">> -> MathTan(toRadians(a))

\* The decimal literal grammar on a whole token: an optional sign, digits
\* with an optional decimal point, and an optional exponent (e or E, an
\* optional sign, digits).  ExponentEnd is the index after the exponent part
\* that starts at s[q], q itself when none starts there.
DigitsEndOr(s, e0, q) == IF DigitRunEnd(s, e0) > e0 THEN DigitRunEnd(s, e0) ELSE q

ExponentEnd(s, q) ==
    IF q <= Len(s) /\ s[q] \in {"e", "E"}
    THEN IF q + 1 <= Len(s) /\ s[q + 1] \in {"+", "-"}
         THEN DigitsEndOr(s, q + 2, q)
         ELSE DigitsEndOr(s, q + 1, q)
    ELSE q

FractionEnd(s, intEnd) ==
    IF intEnd <= Len(s) /\ s[intEnd] = "." THEN DigitRunEnd(s, intEnd + 1) ELSE intEnd

LiteralMatch(s, p0, intEnd, fracEnd) ==
    /\ intEnd > p0 \/ fracEnd > intEnd + 1
    /\ ExponentEnd(s, fracEnd) = Len(s) + 1

LiteralFrom(s, p0) ==
    LiteralMatch(s, p0, DigitRunEnd(s, p0), FractionEnd(s, DigitRunEnd(s, p0)))

IsDecimalLiteral(s) ==
    IF s # <<>> /\ s[1] \in {"+", "-"} THEN LiteralFrom(s, 2) ELSE LiteralFrom(s, 1)

\* A Number-Literal: the whole token is a decimal literal and its value is
\* finite.
IsNumberLiteral(token) == IsDecimalLiteral(token) /\ isFinite(parseFloat(token))

\* v < 0 and v >= 0, for the numbers whose sign is known exactly.
Negative(v) == v.k = "-Infinity" \/ (v.k = "num" /\ v.n < 0)

NonNegative(v) == IsZero(v) \/ v.k = "Infinity" \/ (v.k = "num" /\ v.n > 0)

\* The top of a non-empty stack.
Top(s) == s[Len(s)]

\* s is t without some of its last values.
IsPrefix(s, t) == Len(s) <= Len(t) /\ s = SubSeq(t, 1, Len(s))

\* The loop is about to examine tokens[done + 1].
AtToken == pc = "loop" /\ done < Len(tokens)

(***************************************************************************)
(* Properties                                                              *)
(***************************************************************************)
\* C1: for every expression "a b op" with a and b number literals and op one
\* of + - * / ^ (b # 0 for /), evaluateRPN returns op applied to (a, b) in
\* that order: the first-written operand is the left operand.
C1_OperandOrder ==
    (/\ pc \in {"returned", "thrown"}
     /\ Len(tokens) = 3
     /\ IsNumberLiteral(tokens[1])
     /\ IsNumberLiteral(tokens[2])
     /\ tokens[3] \in Arity2
     /\ ~(tokens[3] = <<"/">> /\ IsZero(parseFloat(tokens[2]))))
    => outcome = Return(Apply2(tokens[3], parseFloat(tokens[1]), parseFloat(tokens[2])))

\* "10 3 -" has returned 7.
C1_Witness ==
    /\ pc = "returned"
    /\ tokens = <<<<"1", "0">>, <<"3">>, <<"-">>>>
    /\ outcome.value = Num(7, 1)

\* The stack t after a step of the scan on a stack s: a number literal
\* appends its value, an operator of arity 2 replaces the top two values a, b
\* by a op b, an operator of arity 1 replaces the top value a by op(a), and
\* the values below are those of s; no other token is processed without
\* failure.
ScanStep(token, s, t) ==
    /\ IsNumberLiteral(token) \/ token \in Arity2 \/ token \in Arity1
    /\ IsNumberLiteral(token) => t = Append(s, parseFloat(token))
    /\ token \in Arity2 =>
          /\ Len(s) >= 2
          /\ t = Append(SubSeq(s, 1, Len(s) - 2), Apply2(token, s[Len(s) - 1], s[Len(s)]))
    /\ token \in Arity1 =>
          /\ Len(s) >= 1
          /\ t = Append(SubSeq(s, 1, Len(s) - 1), Apply1(token, s[Len(s)]))

\* C2: each token that evaluateRPN processes without failure changes the
\* stack as a step of a left-to-right RPN scan does, so that after token i
\* the stack is the stack of the scan of tokens 1..i.
C2_StackOfScan ==
    [][(pc = "loop" /\ pc' = "loop" /\ done' = done + 1)
       => ScanStep(tokens[done + 1], stack, stack')]_vars

\* C3: evaluateRPN returns a value v only when all tokens are consumed and
\* the stack holds exactly the one value v; when every token was processed
\* without failure and more than one value remains it fails with the
\* too-many-operands error.
C3_ExactlyOneValue ==
    /\ outcome.kind = "return" => pc = "returned"
    /\ pc = "returned" =>
          /\ done = Len(tokens)
          /\ Len(stack) = 1
          /\ outcome = Return(stack[1])
    /\ (pc \in {"returned", "thrown"} /\ done = Len(tokens) /\ Len(stack) > 1) =>
          outcome = Throw(Error("Invalid expression: too many operands", <<>>))

\* "3 4" has failed with the too-many-operands error, both values on the stack.
C3_Witness ==
    /\ pc = "thrown"
    /\ tokens = <<<<"3">>, <<"4">>>>
    /\ done = 2
    /\ Len(stack) = 2
    /\ outcome.error.text = "Invalid expression: too many operands"

\* The operator lacks operands on the stack s.
Starved(token, s) ==
    \/ token \in Arity2 /\ Len(s) < 2
    \/ token \in Arity1 /\ Len(s) = 0

\* C4: at an operator of arity 2 with fewer than 2 values on the stack, or
\* one of arity 1 with an empty stack, evaluateRPN fails with the
\* insufficient-operands error naming that operator; the operator is not
\* applied and no value is returned.
C4_InsufficientOperands ==
    [][(AtToken /\ Starved(tokens[done + 1], stack))
       => /\ pc' = "thrown"
          /\ outcome' = Throw(Error("Insufficient operands for operator", tokens[done + 1]))
          /\ stack' = stack
          /\ done' = done]_vars

\* An operator + has failed on a stack of one value.
C4_Witness ==
    /\ pc = "thrown"
    /\ Len(stack) = 1
    /\ outcome.error = Error("Insufficient operands for operator", <<"+">>)

\* C5: at / with at least two values on the stack and a divisor equal to 0,
\* also one that earlier operators computed, evaluateRPN fails with the
\* division-by-zero error, and no quotient is pushed or returned.
C5_DivisionByZero ==
    [][(AtToken /\ tokens[done + 1] = <<"/">> /\ Len(stack) >= 2 /\ IsZero(Top(stack)))
       => /\ pc' = "thrown"
          /\ outcome' = Throw(Error("Division by zero", <<>>))
          /\ IsPrefix(stack', stack)]_vars

\* A division has failed on a zero that the operator - had computed.
C5_Witness ==
    /\ pc = "thrown"
    /\ outcome.error.text = "Division by zero"
    /\ done >= 3
    /\ tokens[done] = <<"-">>
    /\ tokens[done + 1] = <<"/">>

\* C6: at sqrt with a non-empty stack, a negative top value, literal or
\* computed, makes evaluateRPN fail with the negative-square-root error; a
\* top value >= 0 does not make it fail at that token.
C6_NegativeSquareRoot ==
    [][(AtToken /\ tokens[done + 1] = <<"s", "q", "r", "t">> /\ Len(stack) >= 1)
       => /\ Negative(Top(stack)) =>
                /\ pc' = "thrown"
                /\ outcome' = Throw(Error("Square root of negative number", <<>>))
          /\ NonNegative(Top(stack)) =>
                /\ pc' = "loop"
                /\ done' = done + 1]_vars

\* sqrt has failed on a negative value that the operator - had computed.
C6_Witness ==
    /\ pc = "thrown"
    /\ outcome.error.text = "Square root of negative number"
    /\ done >= 3
    /\ tokens[done] = <<"-">>
    /\ tokens[done + 1] = <<"s", "q", "r", "t">>

\* C7: at a token that is neither a number literal nor exactly one of the
\* nine operators, no earlier token having failed, evaluateRPN fails with the
\* unknown-token error naming that token.
C7_UnknownToken ==
    [][(/\ AtToken
        /\ ~IsNumberLiteral(tokens[done + 1])
        /\ tokens[done + 1] \notin Arity2 \cup Arity1)
       => /\ pc' = "thrown"
          /\ outcome' = Throw(Error("Unknown token:", tokens[done + 1]))]_vars

\* C8: a token is classified as a number only if the whole token is a
\* decimal literal of finite value; no other token is pushed as a value.
C8_WholeTokenLiteral ==
    \A i \in 1..Len(tokens) :
        /\ isNumber(tokens[i]) => IsNumberLiteral(tokens[i])
        /\ (i <= done /\ tokens[i] \notin Arity2 \cup Arity1) => IsNumberLiteral(tokens[i])

\* C9: validateRPN never throws, and returns true exactly when evaluateRPN
\* returns a value: false for every failure, the empty expression included.
C9_ValidateIffReturns ==
    /\ valid \in {"pending", "true", "false"}
    /\ valid # "pending" =>
          /\ pc \in {"returned", "thrown"}
          /\ valid = "true" <=> pc = "returned"
          /\ valid = "true" <=> evaluateRPN(expression).kind = "return"
    /\ (pc \in {"returned", "thrown"} /\ valid = "pending") => ENABLED Validate

\* validateRPN has returned false for an expression of white space only.
C9_Witness ==
    /\ valid = "false"
    /\ expression # <<>>
    /\ IsBlank(expression)
    /\ outcome.error.text = "Expression cannot be empty"

\* The failure condition that holds at a token on a stack s, NoError when
\* none does.
FailureAt(token, s) ==
    IF IsNumberLiteral(token) THEN NoError
    ELSE IF token \in Arity2
         THEN IF Len(s) < 2 THEN Error("Insufficient operands for operator", token)
              ELSE IF token = <<"/">> /\ IsZero(Top(s)) THEN Error("Division by zero", <<>>)
              ELSE NoError
    ELSE IF token \in Arity1
         THEN IF Len(s) < 1 THEN Error("Insufficient operands for operator", token)
              ELSE IF token = <<"s", "q", "r", "t">> /\ Negative(Top(s))
                   THEN Error("Square root of negative number", <<>>)
              ELSE NoError
    ELSE Error("Unknown token:", token)

\* C10: every failure aborts evaluateRPN at once: the error is that of the
\* leftmost token at which a failure condition holds, no token to its right
\* is examined, and the check of the final stack runs only after every token
\* was processed without failure.
C10_LeftmostFailure ==
    /\ [][AtToken =>
            IF FailureAt(tokens[done + 1], stack) # NoError
            THEN /\ pc' = "thrown"
                 /\ outcome' = Throw(FailureAt(tokens[done + 1], stack))
                 /\ done' = done
            ELSE /\ pc' = "loop"
                 /\ done' = done + 1]_vars
    /\ [](/\ examined = [i \in 1..Len(examined) |-> i]
          /\ Len(examined) <= done + 1
          /\ (pc = "thrown" /\ done < Len(tokens)) => Len(examined) = done + 1
          /\ outcome.error.text \in { "Invalid expression: too many operands",
                                      "Invalid expression: insufficient operands" }
                => done = Len(tokens))

\* C11: for every non-empty input evaluateRPN fails or returns a finite
\* number, never NaN or an infinity.
C11_FiniteResult == pc = "returned" => isFinite(outcome.value)

\* C12: white space added in front of an expression, at its end, or in the
\* place of one separator does not change the outcome of evaluateRPN: the
\* tokens of trim and split are the same, and none of them is empty.
C12_WhiteSpaceTolerance ==
    /\ pc \in {"returned", "thrown"} => outcome = evaluateRPN(original)
    /\ pc \in {"loop", "returned", "thrown"} /\ tokens # <<>> =>
          /\ tokens = split(trim(original))
          /\ \A i \in 1..Len(tokens) : tokens[i] # <<>>

\* An expression with a separator widened to two characters has returned.
C12_Witness ==
    /\ pc = "returned"
    /\ Len(expression) = Len(original) + 1
    /\ \E i \in 1..Len(original) :
          /\ original[i] \in WhiteSpace
          /\ expression[i] \in WhiteSpace
          /\ expression[i + 1] \in WhiteSpace

\* The input is the empty string or consists of white space only.
AllWhiteSpace(e) == \A i \in 1..Len(e) : e[i] \in WhiteSpace

\* C13: evaluateRPN fails with the empty-expression error, before any token
\* is classified and before any stack operation, if and only if the input is
\* empty or all white space.
C13_EmptyExpression ==
    /\ (pc # "call" /\ AllWhiteSpace(expression)) =>
          /\ pc = "thrown"
          /\ outcome = Throw(Error("Expression cannot be empty", <<>>))
          /\ tokens = <<>>
          /\ examined = <<>>
          /\ stack = <<>>
    /\ outcome.error.text = "Expression cannot be empty" => AllWhiteSpace(expression)

\* An expression of three white space characters has failed as empty.
C13_Witness ==
    /\ pc = "thrown"
    /\ Len(expression) = 3
    /\ AllWhiteSpace(expression)
    /\ outcome.error.text = "Expression cannot be empty"

\* C18: the stack is non-empty after every token processed without failure
\* and a non-blank input has at least one token, so the final check never
\* raises "Invalid expression: insufficient operands": every
\* insufficient-operands failure comes from an operator token.
C18_FinalStackNeverEmpty ==
    /\ pc = "loop" => Len(tokens) >= 1
    /\ (pc = "loop" /\ done >= 1) => Len(stack) >= 1
    /\ outcome.error.text # "Invalid expression: insufficient operands"
    /\ outcome.error.text = "Insufficient operands for operator" =>
          /\ done < Len(tokens)
          /\ tokens[done + 1] \in Arity2 \cup Arity1
          /\ outcome.error.name = tokens[done + 1]

\* The final check is about to run on the one value that sqrt has pushed.
C18_Witness ==
    /\ pc = "loop"
    /\ done = Len(tokens)
    /\ done >= 2
    /\ tokens[done] = <<"s", "q", "r", "t">>
    /\ Len(stack) = 1

\* The stack of evaluateRPN after token i of the tokens.
StackAfter(i) == ProcessTokens(SubSeq(tokens, 1, i), 1, <<>>).stack

\* Step i applies an operator of arity 2 to (a, b), b being the top of the
\* stack before it and a the value below.
OperandOrder(i) ==
    tokens[i] \in Arity2 =>
        /\ steps[i].action.b = Top(StackAfter(i - 1))
        /\ steps[i].action.a = StackAfter(i - 1)[Len(StackAfter(i - 1)) - 1]
        /\ Top(steps[i].stack) = Apply2(tokens[i], steps[i].action.a, steps[i].action.b)

\* C14: on an expression for which evaluateRPN returns v, getEvaluationSteps
\* records one step per token in token order, with the operand order of
\* evaluateRPN; the snapshot of step i is, and stays, the stack of
\* evaluateRPN after token i, and the last snapshot is [v].
C14_TraceOfEvaluation ==
    (pc \in {"trace-loop", "trace-returned"} /\ evaluateRPN(expression).kind = "return") =>
        /\ Len(steps) = done
        /\ \A i \in 1..done :
              /\ steps[i].token = tokens[i]
              /\ steps[i].stack = StackAfter(i)
              /\ OperandOrder(i)
        /\ pc = "trace-returned" =>
              /\ done = Len(tokens)
              /\ steps[done].stack = <<evaluateRPN(expression).value>>

\* The trace of "3 4 5 * +" is returned: its fourth snapshot is still [3, 20]
\* and its last one [23].
C14_Witness ==
    /\ pc = "trace-returned"
    /\ tokens = <<<<"3">>, <<"4">>, <<"5">>, <<"*">>, <<"+">>>>
    /\ Len(steps) = 5
    /\ steps[4].stack = <<Num(3, 1), Num(20, 1)>>
    /\ steps[5].stack = <<Num(23, 1)>>

\* C15: for every input the trace that getEvaluationSteps returns holds one
\* record per token, in token order, each with that token.
C15_StepPerToken ==
    pc = "trace-returned" =>
        /\ Len(steps) = Len(tokens)
        /\ \A i \in 1..Len(steps) : steps[i].token = tokens[i]

\* The loop of getEvaluationSteps is about to examine tokens[done + 1].
AtTraceToken == pc = "trace-loop" /\ done < Len(tokens)

\* A case that evaluateRPN guards: an operator without its operands, / with
\* a zero divisor, sqrt of a negative value.
Guarded(token, s) ==
    \/ Starved(token, s)
    \/ token = <<"/">> /\ Len(s) >= 2 /\ IsZero(Top(s))
    \/ token = <<"s", "q", "r", "t">> /\ Len(s) >= 1 /\ Negative(Top(s))

\* The one guarded case with a finite result: ^ with the exponent 0 and no
\* base, Math.pow(undefined, 0) being 1.
ZeroExponentOnly(token, s) == token = <<"^">> /\ Len(s) = 1 /\ IsZero(Top(s))

\* C17 as stated: in each guarded case getEvaluationSteps does not fail but
\* records a step whose pushed result is NaN or an infinity, and goes on.
C17_UnguardedNonFinite ==
    [][(AtTraceToken /\ Guarded(tokens[done + 1], stack))
       => /\ pc' = "trace-loop"
          /\ done' = done + 1
          /\ Len(steps') = Len(steps) + 1
          /\ SubSeq(steps', 1, Len(steps)) = steps
          /\ steps'[Len(steps')].stack = stack'
          /\ ~isFinite(Top(stack'))]_vars

\* C17 amended: in each guarded case getEvaluationSteps does not fail but
\* records a step and goes on, so that every input has a trace; the pushed
\* result is NaN or an infinity, except that ^ with the exponent 0 and no
\* base pushes 1.
C17_UnguardedStep ==
    [][(AtTraceToken /\ Guarded(tokens[done + 1], stack))
       => /\ pc' = "trace-loop"
          /\ done' = done + 1
          /\ Len(steps') = Len(steps) + 1
          /\ SubSeq(steps', 1, Len(steps)) = steps
          /\ steps'[Len(steps')].stack = stack'
          /\ IF ZeroExponentOnly(tokens[done + 1], stack)
             THEN Top(stack') = One
             ELSE ~isFinite(Top(stack'))]_vars

\* ^ was applied to the single value 0: the step recorded holds the stack [1].
C17_Witness ==
    /\ pc = "trace-loop"
    /\ done = 2
    /\ tokens[1] = <<"0">>
    /\ tokens[2] = <<"^">>
    /\ Len(steps) = 2
    /\ steps[2].stack = <<One>>

\* The expression of the page is one that handleCalculate evaluates and
\* evaluateRPN returns a value for.
Succeeds == trim(expression) # <<>> /\ evaluateRPN(trim(expression)).kind = "return"

\* The step is one of a handler that calculates: the button, or a key.
CalculateStep == pc' \in {"handleCalculate", "handleKeyPress"}

\* The records are ordered from the most recent one to the oldest one.
MostRecentFirst(h) ==
    \A i \in 1..Len(h) : \A j \in 1..Len(h) : i < j => h[i].timestamp > h[j].timestamp

\* The step put a new record at the head of the history and kept, in their
\* order, the records that were there, but for the tenth.
HeadInsert ==
    /\ Len(history') = Min(Len(history) + 1, 10)
    /\ history'[1].timestamp = clock'
    /\ clock' > clock
    /\ Tail(history') = SubSeq(history, 1, Len(history') - 1)

\* C16: after any sequence of UI actions the history holds at most 10
\* records, the most recent first; a successful calculation inserts its
\* record at the head, keeps the order of the records retained and drops
\* the last one when there were 10; no other step changes the history but
\* to empty it.
C16_BoundedHistory ==
    /\ [](Len(history) <= 10 /\ MostRecentFirst(history))
    /\ [][/\ (pc' = "handleCalculate" /\ Succeeds) => HeadInsert
          /\ history' # history =>
                \/ pc' = "clearHistory" /\ history' = <<>>
                \/ CalculateStep /\ Succeeds /\ HeadInsert]_vars

\* An eleventh calculation has succeeded: the history holds the ten most
\* recent records, the one of the first calculation having been dropped.
C16_Witness ==
    /\ pc = "handleCalculate"
    /\ clock = 11
    /\ Len(history) = 10
    /\ history[1].timestamp = 11
    /\ history[10].timestamp = 2

\* C19: after any sequence of UI actions the result and the error of the
\* page are never both non-null.
C19_ResultOrError == result = Null \/ error = NullMessage

\* C20: a calculate action that fails leaves the history unchanged, as do
\* the clear action and a click on a history entry; a record is added only
\* by a calculate action whose evaluation succeeded, and it holds the
\* trimmed expression and the value that evaluateRPN returned for it.
C20_HistoryFrame ==
    [][/\ (CalculateStep /\ ~Succeeds) => history' = history
       /\ pc' \in {"clearAll", "handleHistoryClick"} => history' = history
       /\ (history' # history /\ history' # <<>>) =>
             /\ CalculateStep
             /\ Succeeds
             /\ Len(history') <= Len(history) + 1
             /\ \A i \in 2..Len(history') : history'[i] = history[i - 1]
             /\ history'[1].expression = trim(expression)
             /\ history'[1].result = evaluateRPN(trim(expression)).value]_vars

\* " 9 sqrt" was calculated, its record holding "9 sqrt" and 3, then an
\* expression that evaluateRPN throws on: the history is as it was.
C20_Witness ==
    /\ pc = "handleCalculate"
    /\ ~Succeeds
    /\ result = Null
    /\ error # NullMessage
    /\ Len(history) = 1
    /\ history[1].expression = <<"9", " ", "s", "q", "r", "t">>
    /\ history[1].result = Num(3, 1)

====
